---------------------------- MODULE Spec2Model ----------------------------
(***************************************************************************)
(* FastGradientMethod (src/src/attacks/fast_gradient.py) as a state        *)
(* machine: one call of generate(x, y, mask=...) on an attack object,      *)
(* stepped through validation, label inference, the minimal-perturbation   *)
(* search and the single-step / random-restart driver.                     *)
(*                                                                         *)
(* Numbers are fixed-point: the integer v stands for the real v / Scale.   *)
(* NaN is a value of its own that every arithmetic operation propagates.   *)
(* A batch is a sequence of samples, a sample a sequence of features       *)
(* (x.shape = (n, d)).  A mask or an eps array is a record                 *)
(*   [rank, rows, cols, dtype, data]                                       *)
(* of shape () / (cols,) / (rows, cols) / (1, rows, cols) for rank 0..3.   *)
(***************************************************************************)
EXTENDS Integers, Sequences, FiniteSets, TLC

(* ------------------------------ bounds --------------------------------- *)
\* largest number of samples in a batch x
MaxN == 2
\* largest eps / eps_step, in units of 1/Scale
MaxEps == 2
\* largest num_random_init
MaxInit == 2

(* --------------------------- numeric values ---------------------------- *)
\* resolution of the fixed-point stand-in for FLOAT_NUMPY: 1.0 is Scale
Scale == 2
\* the not-a-number value (np.isnan)
NaN == 9999
\* positive infinity (np.isinf); Neg(Inf) is negative infinity.  Infinities
\* occur in loss gradients only
Inf == 1000

IsNaN(v) == v = NaN
IsInf(v) == v = Inf \/ v = -Inf

Abs(a) == IF a < 0 THEN -a ELSE a
Min(a, b) == IF a <= b THEN a ELSE b
Max(a, b) == IF a >= b THEN a ELSE b
\* a / b rounded to the nearest integer (b > 0): the rounding of a quotient
RoundDiv(a, b) == IF a >= 0 THEN (2 * a + b) \div (2 * b) ELSE -((2 * (-a) + b) \div (2 * b))

Add(a, b) == IF IsNaN(a) \/ IsNaN(b) THEN NaN ELSE a + b
Sub(a, b) == IF IsNaN(a) \/ IsNaN(b) THEN NaN ELSE a - b
Neg(a) == IF IsNaN(a) THEN NaN ELSE -a
\* product of two fixed-point numbers
Mul(a, b) == IF IsNaN(a) \/ IsNaN(b) THEN NaN ELSE RoundDiv(a * b, Scale)
\* np.sign: -1.0, 0.0 or 1.0 (also of an infinity), NaN for NaN
Sign(a) == IF IsNaN(a) THEN NaN ELSE IF a > 0 THEN Scale ELSE IF a < 0 THEN -Scale ELSE 0
\* np.clip of one element
Clip(v, lo, hi) == IF IsNaN(v) THEN NaN ELSE Min(Max(v, lo), hi)

\* least r with r * r >= m (the square root, rounded up)
CeilSqrt(m) == CHOOSE r \in 0..(m + 1) : r * r >= m /\ (r = 0 \/ (r - 1) * (r - 1) < m)

RECURSIVE SumSeq(_)
SumSeq(s) == IF s = <<>> THEN 0 ELSE Head(s) + SumSeq(Tail(s))

(* ------------------------------ arrays --------------------------------- *)
\* estimator.clip_values is None
NoClip == <<>>
\* mask is None
NoMask == [rank |-> 0, rows |-> 0, cols |-> 0, dtype |-> "none", data |-> <<>>]

Scalar(v) == [rank |-> 0, rows |-> 1, cols |-> 1, dtype |-> "float", data |-> <<<<v>>>>]
IsArray(a) == a.rank > 0

\* element (i, j) of array a broadcast against a batch (numpy broadcasting:
\* an axis of length 1 is repeated)
BGet(a, i, j) == a.data[IF a.rows = 1 THEN 1 ELSE i][IF a.cols = 1 THEN 1 ELSE j]

\* a's shape can be broadcast against a batch of m rows and d columns without
\* changing the batch's shape
Broadcasts(a, m, d) == a.rank <= 2 /\ a.rows \in {1, m} /\ a.cols \in {1, d}

\* a[i1:i2] along the first axis (python slicing, i1 and i2 zero-based)
SliceRows(a, i1, i2) ==
    LET hi == Min(i2, a.rows)
        lo == Min(i1, hi)
    IN [a EXCEPT !.rows = hi - lo, !.data = SubSeq(a.data, lo + 1, hi)]

\* batch[i1:i2]
SliceBatch(b, i1, i2) == SubSeq(b, Min(i1, Len(b)) + 1, Min(i2, Len(b)))

(* --------------------- _compute_perturbation --------------------------- *)
Rows(b) == 1..Len(b)
Cols(b) == IF Len(b) = 0 THEN {} ELSE 1..Len(b[1])

\* grad * (1 - 2 * int(self.targeted))
OrientGrad(g, targeted) == [i \in Rows(g) |-> [j \in Cols(g) |-> IF targeted THEN Neg(g[i][j]) ELSE g[i][j]]]

\* SanitizeGrad with the replacement left out
SanitizeGradSkipped(g) == g

\* NaN elements of the gradient are replaced with 0.0
SanitizeGrad(g) == [i \in Rows(g) |-> [j \in Cols(g) |-> IF IsNaN(g[i][j]) THEN 0 ELSE g[i][j]]]

\* grad = np.where(mask == 0.0, 0.0, grad)
MaskGrad(g, mask) ==
    IF mask = NoMask THEN g
    ELSE [i \in Rows(g) |-> [j \in Cols(g) |-> IF BGet(mask, i, j) = 0 THEN 0 ELSE g[i][j]]]

\* the norm bound of one sample's gradient; tol only keeps 0 / (0 + tol) = 0
\* a sample with an infinite element has an infinite norm: inf / inf is NaN,
\* any finite element / inf is 0
_apply_norm(row, norm) ==
    LET l1 == SumSeq([j \in 1..Len(row) |-> Abs(row[j])])
        sq == SumSeq([j \in 1..Len(row) |-> row[j] * row[j]])
        l2 == CeilSqrt(sq * Scale * Scale)
        infinite == \E j \in 1..Len(row) : IsInf(row[j])
    IN CASE norm = "inf" -> [j \in 1..Len(row) |-> Sign(row[j])]
         [] norm \in {"l1", "l2"} /\ infinite -> [j \in 1..Len(row) |-> IF IsInf(row[j]) THEN NaN ELSE 0]
         [] norm = "l1" -> [j \in 1..Len(row) |-> IF l1 = 0 THEN 0 ELSE RoundDiv(row[j] * Scale, l1)]
         [] norm = "l2" -> [j \in 1..Len(row) |-> IF sq = 0 THEN 0 ELSE RoundDiv(row[j] * Scale * Scale, l2)]
         [] OTHER -> row

\* the perturbation of a batch from the estimator's loss gradient g
_compute_perturbation(g, mask, targeted, norm) ==
    LET grad == MaskGrad(SanitizeGrad(OrientGrad(g, targeted)), mask)
    IN [i \in Rows(grad) |-> _apply_norm(grad[i], norm)]

(* ----------------------- _apply_perturbation --------------------------- *)
\* ApplyAt with neither the NaN step cleared nor the result clipped
ApplyAtRaw(xv, p, e, clip) == Add(xv, Mul(e, p))

\* one element: x + eps_step * perturbation, a NaN step replaced by 0, then
\* clipped to estimator.clip_values when there are any
ApplyAt(xv, p, e, clip) ==
    LET step == Mul(e, p)
        clean == IF IsNaN(step) THEN 0 ELSE step
        moved == Add(xv, clean)
    IN IF clip = NoClip THEN moved ELSE Clip(moved, clip[1], clip[2])

_apply_perturbation(xb, perturbation, eps_step, clip) ==
    [i \in Rows(xb) |-> [j \in Cols(xb) |-> ApplyAt(xb[i][j], perturbation[i][j], BGet(eps_step, i, j), clip)]]

(* ---------------- collaborators from src.preprocessing.utils ----------- *)
HasNaN(row) == \E j \in 1..Len(row) : IsNaN(row[j])

\* projection of one sample's perturbation onto the eps-ball: a clip for the
\* infinity norm, a rescaling for the norms 1 and 2
ProjectRow(row, eps, i, norm) ==
    LET e == BGet(eps, i, 1)
        l1 == SumSeq([j \in 1..Len(row) |-> Abs(row[j])])
        sq == SumSeq([j \in 1..Len(row) |-> row[j] * row[j]])
    IN CASE norm = "inf" ->
              [j \in 1..Len(row) |->
                  IF IsNaN(row[j]) THEN NaN
                  ELSE (IF row[j] > 0 THEN 1 ELSE IF row[j] < 0 THEN -1 ELSE 0) * Min(Abs(row[j]), BGet(eps, i, j))]
         [] norm = "l1" ->
              IF HasNaN(row) THEN [j \in 1..Len(row) |-> NaN]
              ELSE IF l1 <= e THEN row
              ELSE [j \in 1..Len(row) |-> RoundDiv(row[j] * e, l1)]
         [] norm = "l2" ->
              IF HasNaN(row) THEN [j \in 1..Len(row) |-> NaN]
              ELSE IF sq <= e * e THEN row
              ELSE [j \in 1..Len(row) |-> RoundDiv(row[j] * e, CeilSqrt(sq))]
         [] OTHER -> row

projection(values, eps, norm) == [i \in Rows(values) |-> ProjectRow(values[i], eps, i, norm)]

\* r is a point random_sphere may return for one sample: inside the ball of
\* radius e of the norm
InBall(r, e, norm) ==
    CASE norm = "inf" -> \A j \in 1..Len(r) : Abs(r[j]) <= e
      [] norm = "l1" -> SumSeq([j \in 1..Len(r) |-> Abs(r[j])]) <= e
      [] norm = "l2" -> SumSeq([j \in 1..Len(r) |-> r[j] * r[j]]) <= e * e
      [] OTHER -> FALSE

(* ------------------------------- state --------------------------------- *)
VARIABLES
    cfg,            \* the attack: norm, eps, eps_step, targeted, num_random_init, batch_size, minimal
    est,            \* the estimator: classifier, clip_values, grads (the values its loss gradient takes)
    x, y, maskArg,  \* the arguments of generate: x, y (<<>> for None), kwargs["mask"]
    pc, err,        \* position in generate; the error raised, "none" when none
    mask, y_array,  \* locals of generate
    adv_x_best, rate_best, restart,
    x_adv, batch_id,            \* _compute's array and either loop's batch index
    adv_x, perturbation, active_indices, current_eps, partial_stop_condition,
    memo,           \* the estimator's prediction function, as far as it has been asked
    predict_called, gradient_called,
    search_batches, \* batches whose search loop body has run
    passes,         \* passes of the search loop in the current batch, counted modulo PassWrap
    pert_all,       \* the perturbation computed for each sample in the current run
    nan_pos,        \* positions whose loss gradient was NaN in the current run
    runs,           \* the batch and success rate of each random restart
    last_apply,     \* arguments and result of the latest _apply_perturbation call
    x_mem,          \* what the caller's array x holds now (x is what it held at the call)
    shares,         \* the locals among adv_x, x_adv, adv_x_best bound to the caller's array itself
    twin            \* a second attack that differs in eps_step only, run in step on the same
                    \* x, y, mask, estimator and random draws: its eps_step, x_adv, adv_x_best, rate_best

inputs == <<cfg, est, x, y, maskArg>>
locals == <<mask, y_array, adv_x_best, rate_best, restart>>
compv == <<x_adv, batch_id>>
minv == <<adv_x, perturbation, active_indices, current_eps, partial_stop_condition>>
estv == <<memo, predict_called, gradient_called>>
ghost == <<search_batches, passes, pert_all, nan_pos, runs, last_apply>>
heap == <<x_mem, shares>>
vars == <<inputs, pc, err, locals, compv, minv, estv, ghost, heap, twin>>

\* estimator.nb_classes = 2; labels are kept as class indices (the argmax of
\* the one-hot rows)
Classes == {1, 2}
\* the pass counter wraps after more passes than any eps budget allows
PassWrap == MaxEps + 2
NoLabels == <<>>
NoApply == [x |-> <<>>, p |-> <<>>, e |-> Scalar(0), out |-> <<>>]

N == Len(x)
D == Len(x[1])
\* int(np.ceil(x.shape[0] / float(self.batch_size)))
NumBatches == (N + cfg.batch_size - 1) \div cfg.batch_size
B1 == batch_id * cfg.batch_size
B2 == Min((batch_id + 1) * cfg.batch_size, N)

Range(f) == {f[i] : i \in DOMAIN f}
\* the prediction functions that agree with m and also answer for the samples S
Extensions(m, S) == {m @@ f : f \in [S \ DOMAIN m -> Classes]}

Raise(kind) == pc' = "error" /\ err' = kind

\* CopiesInput with the input array used in place
CopiesInputNever(site) == FALSE

\* the working array is a new array, not the caller's: adv_x = x.copy() in
\* _minimal_perturbation ("minimal"), x_adv = x.astype(FLOAT_NUMPY) or
\* x.copy() in _compute ("compute")
CopiesInput(site) == site \in {"minimal", "compute"}

\* the bindings after `to = from`: to is the caller's array iff from is
Rebind(sh, to, from) == (sh \ {to}) \cup (IF from \in sh THEN {to} ELSE {})

(* ------------------------ generate: validation ------------------------- *)
\* MaskError with every mask let through
MaskErrorLax(m) == "none"

\* what _get_mask raises for a mask, "none" when it returns it
MaskError(m) ==
    IF m = NoMask THEN "none"
    ELSE IF m.rank > 2 THEN "mask_rank"
    ELSE IF m.dtype \notin {"float", "bool"} THEN "mask_dtype"
    ELSE IF m.dtype = "float" /\ (\E i \in 1..m.rows, j \in 1..m.cols : m.data[i][j] < 0) THEN "mask_negative"
    ELSE "none"

\* mask = self._get_mask(x, **kwargs)
_get_mask ==
    /\ pc = "get_mask"
    /\ IF MaskError(maskArg) # "none"
       THEN Raise(MaskError(maskArg)) /\ UNCHANGED mask
       ELSE pc' = "check_eps" /\ mask' = maskArg /\ UNCHANGED err
    /\ UNCHANGED <<inputs, y_array, adv_x_best, rate_best, restart, compv, minv, estv, ghost, heap, twin>>

\* what _check_compatibility_input_and_eps raises, "none" when it returns
EpsError(eps) == IF IsArray(eps) /\ eps.rank > 2 THEN "eps_rank" ELSE "none"

_check_compatibility_input_and_eps ==
    /\ pc = "check_eps"
    /\ IF EpsError(cfg.eps) # "none"
       THEN Raise(EpsError(cfg.eps))
       ELSE pc' = "labels" /\ UNCHANGED err
    /\ UNCHANGED <<inputs, locals, compv, minv, estv, ghost, heap, twin>>

\* what the label stage of generate raises before it asks the estimator
LabelError ==
    IF est.classifier
    THEN (IF y = NoLabels /\ cfg.targeted THEN "targeted_no_y" ELSE "none")
    ELSE (IF cfg.minimal THEN "minimal_not_classifier"
          ELSE IF y = NoLabels /\ cfg.targeted THEN "targeted_no_y" ELSE "none")

\* y_array: the given labels, or the estimator's predictions for x
Labels ==
    /\ pc = "labels"
    /\ IF LabelError # "none"
       THEN Raise(LabelError) /\ UNCHANGED <<y_array, adv_x_best, rate_best, restart, adv_x, batch_id, estv, shares>>
       ELSE /\ IF y = NoLabels
               THEN \E m2 \in Extensions(memo, Range(x)) :
                       /\ memo' = m2
                       /\ y_array' = [i \in 1..N |-> m2[x[i]]]
                       /\ predict_called' = TRUE
               ELSE y_array' = y /\ UNCHANGED <<memo, predict_called>>
            /\ adv_x_best' = x
            /\ rate_best' = 0
            /\ restart' = 0
            /\ adv_x' = x
            /\ shares' = {"adv_x_best"} \cup (IF cfg.minimal /\ ~CopiesInput("minimal") THEN {"adv_x"} ELSE {})
            /\ batch_id' = 0
            /\ pc' = IF cfg.minimal THEN "minimal_batch" ELSE "restart"
            /\ UNCHANGED <<err, gradient_called>>
    /\ UNCHANGED <<inputs, mask, x_adv, perturbation, active_indices, current_eps, partial_stop_condition, ghost, x_mem, twin>>

(* ----------------------- estimator and success ------------------------- *)
\* the loss gradients the estimator may return for a batch of m samples
Gradients(m) == [1..m -> [1..D -> est.grads]]

\* positions (sample, feature) of x at which the gradient g of the batch
\* starting after sample b1 is NaN
NaNPositions(g, b1) == {<<b1 + i, j>> : i \in Rows(g), j \in Cols(g)} \cap {q \in (1..N) \X (1..D) : IsNaN(g[q[1] - b1][q[2]])}

\* the samples compute_success asks the estimator about
SuccessSamples(clean, adv) == Range(adv) \cup (IF cfg.targeted THEN {} ELSE Range(clean))

\* 100 * compute_success(estimator, x, y, x_adv, targeted), with m the
\* estimator: a targeted sample succeeds when it is predicted as its target, an
\* untargeted one when its prediction differs from the clean sample's
SuccessRate(m, clean, labels, adv) ==
    LET ok == {i \in 1..Len(adv) : IF cfg.targeted THEN m[adv[i]] = labels[i] ELSE m[adv[i]] # m[clean[i]]}
    IN (100 * Cardinality(ok)) \div Len(adv)

(* ---------------------- eps and mask per batch ------------------------- *)
\* isinstance(eps, np.ndarray) and isinstance(eps_step, np.ndarray) and
\* len(eps.shape) == len(x.shape) and eps.shape[0] == x.shape[0]
PerSample(eps, eps_step) == IsArray(eps) /\ IsArray(eps_step) /\ eps.rank = 2 /\ eps.rows = N

BatchOf(a, eps, eps_step) == IF PerSample(eps, eps_step) THEN SliceRows(a, B1, B2) ELSE a

\* mask_batch: a mask of x's rank is indexed per batch, any other is kept
MaskBatch(m) == IF m # NoMask /\ m.rank = 2 THEN SliceRows(m, B1, B2) ELSE m

\* np.where(mask == 0.0, 0.0, grad) keeps the gradient's shape
MaskFits(m, rows) == m = NoMask \/ Broadcasts(m, rows, D)

\* (a <= b).all()
AllLeq(a, b) ==
    \A i \in 1..Max(a.rows, b.rows), j \in 1..Max(a.cols, b.cols) : BGet(a, i, j) <= BGet(b, i, j)

\* a + b
AddArr(a, b) == [a EXCEPT !.data = [i \in 1..a.rows |-> [j \in 1..a.cols |-> Add(a.data[i][j], BGet(b, i, j))]]]

(* ----------------------- _minimal_perturbation ------------------------- *)
\* StopCondition with .any() written for .all()
StopConditionAny(ce) ==
    LET e == BatchOf(cfg.eps, cfg.eps, cfg.eps_step)
    IN \E i \in 1..Max(ce.rows, e.rows), j \in 1..Max(ce.cols, e.cols) : BGet(ce, i, j) <= BGet(e, i, j)

\* partial_stop_condition for the step ce: (current_eps <= eps).all() over
\* the batch's part of a per-sample eps, current_eps <= eps otherwise
StopCondition(ce) == AllLeq(ce, BatchOf(cfg.eps, cfg.eps, cfg.eps_step))

\* NextEps with the increment forgotten
NextEpsStuck(ce) == ce

\* current_eps = current_eps + eps_step (the batch's part of it)
NextEps(ce) == AddArr(ce, BatchOf(cfg.eps_step, cfg.eps, cfg.eps_step))

\* UpdateActive with the whole batch overwritten: batch[:] = current_x
UpdateAll(adv, current_x, active) ==
    [i \in 1..N |-> IF i \in (B1 + 1)..B2 THEN current_x[i - B1] ELSE adv[i]]

\* batch[active_indices] = current_x[active_indices], seen on the whole of adv_x
UpdateActive(adv, current_x, active) ==
    [i \in 1..N |-> IF i \in (B1 + 1)..B2 /\ (i - B1) \in active THEN current_x[i - B1] ELSE adv[i]]

\* the start of a batch: its perturbation, the active indices, the first
\* current_eps and the stop condition
MinimalBatch ==
    /\ pc = "minimal_batch"
    /\ \E g \in Gradients(B2 - B1) :
          /\ gradient_called' = TRUE
          /\ IF ~MaskFits(MaskBatch(mask), B2 - B1)
             THEN Raise("broadcast") /\ UNCHANGED <<minv, pert_all, passes, nan_pos>>
             ELSE LET p == _compute_perturbation(g, MaskBatch(mask), cfg.targeted, cfg.norm)
                      ce == BatchOf(cfg.eps_step, cfg.eps, cfg.eps_step)
                  IN /\ perturbation' = p
                     /\ pert_all' = [i \in 1..N |-> IF i \in (B1 + 1)..B2 THEN p[i - B1] ELSE pert_all[i]]
                     /\ nan_pos' = nan_pos \cup NaNPositions(g, B1)
                     /\ active_indices' = 1..(B2 - B1)
                     /\ passes' = 0
                     /\ current_eps' = ce
                     /\ partial_stop_condition' = StopCondition(ce)
                     /\ pc' = "minimal_loop"
                     /\ UNCHANGED <<err, adv_x>>
    /\ UNCHANGED <<inputs, locals, compv, memo, predict_called, search_batches, runs, last_apply, heap, twin>>

\* one pass of the search loop body
MinimalStep ==
    /\ pc = "minimal_loop"
    /\ active_indices # {} /\ partial_stop_condition
    /\ search_batches' = search_batches \cup {batch_id}
    /\ passes' = (passes + 1) % PassWrap
    /\ IF ~Broadcasts(current_eps, B2 - B1, D)
       THEN Raise("broadcast") /\ UNCHANGED <<minv, estv, last_apply, x_mem>>
       ELSE LET xb == SliceBatch(x, B1, B2)
                current_x == _apply_perturbation(xb, perturbation, current_eps, est.clip_values)
                moved == UpdateActive(adv_x, current_x, active_indices)
                batch == SliceBatch(moved, B1, B2)
                ce == NextEps(current_eps)
            IN /\ last_apply' = [x |-> xb, p |-> perturbation, e |-> current_eps, out |-> current_x]
               /\ adv_x' = moved
               /\ x_mem' = IF "adv_x" \in shares THEN moved ELSE x_mem
               /\ \E m2 \in Extensions(memo, Range(batch)) :
                     /\ memo' = m2
                     /\ active_indices' = {i \in 1..(B2 - B1) :
                            IF cfg.targeted THEN y_array[B1 + i] # m2[batch[i]] ELSE y_array[B1 + i] = m2[batch[i]]}
               /\ predict_called' = TRUE
               /\ current_eps' = ce
               /\ partial_stop_condition' = StopCondition(ce)
               /\ UNCHANGED <<pc, err, perturbation, gradient_called>>
    /\ UNCHANGED <<inputs, locals, compv, pert_all, nan_pos, runs, shares, twin>>

\* the search loop of a batch is left: the next batch, or the end of
\* _minimal_perturbation
MinimalBatchEnd ==
    /\ pc = "minimal_loop"
    /\ ~(active_indices # {} /\ partial_stop_condition)
    /\ IF batch_id + 1 < NumBatches
       THEN batch_id' = batch_id + 1 /\ pc' = "minimal_batch" /\ UNCHANGED <<adv_x_best, shares>>
       ELSE /\ adv_x_best' = adv_x /\ shares' = Rebind(shares, "adv_x_best", "adv_x")
            /\ pc' = "minimal_rate" /\ UNCHANGED batch_id
    /\ UNCHANGED <<inputs, err, mask, y_array, rate_best, restart, x_adv, minv, estv, ghost, x_mem, twin>>

\* rate_best = 100 * compute_success(...) of the minimal adversarial batch
MinimalRate ==
    /\ pc = "minimal_rate"
    /\ \E m2 \in Extensions(memo, SuccessSamples(x, adv_x_best)) :
          /\ memo' = m2
          /\ rate_best' = SuccessRate(m2, x, y_array, adv_x_best)
    /\ predict_called' = TRUE
    /\ pc' = "done"
    /\ UNCHANGED <<inputs, err, mask, y_array, adv_x_best, restart, compv, minv, gradient_called, ghost, heap, twin>>

(* ------------------------------ _compute ------------------------------- *)
\* the mask generate passes to _compute: its own for a classifier, None in
\* the branch of the other estimators
ComputeMask == IF est.classifier THEN mask ELSE NoMask

\* what random_sphere(n, m, eps, norm) may return: one point of the eps-ball
\* per sample, here with every coordinate at the centre or at the radius
RandomSphere ==
    {r \in [1..N -> [1..D -> (-MaxEps)..MaxEps]] :
        \A i \in 1..N :
            /\ InBall(r[i], BGet(cfg.eps, i, 1), cfg.norm)
            /\ \A j \in 1..D : Abs(r[i][j]) \in {0, BGet(cfg.eps, i, 1)}}

\* x.astype(FLOAT_NUMPY) + random_perturbation * mask, clipped
RandomStart(r, m) ==
    [i \in 1..N |-> [j \in 1..D |->
        LET rp == IF m = NoMask THEN r[i][j] ELSE Mul(r[i][j], BGet(m, i, j))
            moved == Add(x[i][j], rp)
        IN IF est.clip_values = NoClip THEN moved ELSE Clip(moved, est.clip_values[1], est.clip_values[2])]]

\* the start of one run of _compute(x, x, y_array, mask, eps, eps, project, random_init)
ComputeStart ==
    /\ pc = "restart"
    /\ IF cfg.num_random_init > 0
       THEN IF ~Broadcasts(cfg.eps, N, D) \/ ~MaskFits(ComputeMask, N)
            THEN Raise("broadcast") /\ UNCHANGED <<x_adv, batch_id, twin, shares>>
            ELSE /\ \E r \in RandomSphere :
                        /\ x_adv' = RandomStart(r, ComputeMask)
                        /\ twin' = [twin EXCEPT !.x_adv = RandomStart(r, ComputeMask)]
                 \* x.astype(FLOAT_NUMPY) + random_perturbation is a new array
                 /\ shares' = shares \ {"x_adv"}
                 /\ batch_id' = 0 /\ pc' = "compute_batch" /\ UNCHANGED err
       ELSE /\ x_adv' = x /\ twin' = [twin EXCEPT !.x_adv = x]
            /\ shares' = IF CopiesInput("compute") THEN shares \ {"x_adv"} ELSE shares \cup {"x_adv"}
            /\ batch_id' = 0 /\ pc' = "compute_batch" /\ UNCHANGED err
    /\ UNCHANGED <<inputs, locals, minv, estv, ghost, x_mem>>

\* Project with the projection left out
ProjectSkipped(applied, init, batch_eps) == applied

\* x_init[b1:b2] + projection(x_adv[b1:b2] - x_init[b1:b2], batch_eps, norm)
Project(applied, init, batch_eps) ==
    LET diff == [i \in Rows(applied) |-> [j \in Cols(applied) |-> Sub(applied[i][j], init[i][j])]]
        proj == projection(diff, batch_eps, cfg.norm)
    IN [i \in Rows(applied) |-> [j \in Cols(applied) |-> Add(init[i][j], proj[i][j])]]

\* StepOf with the configured eps_step passed on
StepOfConfigured(c) == c.eps_step

\* the eps_step generate passes to _compute for the attack c: self.eps
StepOf(c) == c.eps

\* eps_step * perturbation keeps the shape of the batch
StepFits(c) == Broadcasts(BatchOf(StepOf(c), c.eps, StepOf(c)), B2 - B1, D)

\* one batch of _compute for the attack c, from the array xadv and the loss
\* gradient g: perturbation, application with StepOf(c) as the step, projection
\* onto the eps-ball around x
RunBatch(c, xadv, g) ==
    LET batch_eps == BatchOf(c.eps, c.eps, StepOf(c))
        batch_eps_step == BatchOf(StepOf(c), c.eps, StepOf(c))
        batch == SliceBatch(xadv, B1, B2)
        p == _compute_perturbation(g, MaskBatch(ComputeMask), c.targeted, c.norm)
        applied == _apply_perturbation(batch, p, batch_eps_step, est.clip_values)
        rows == Project(applied, SliceBatch(x, B1, B2), batch_eps)
    IN [batch |-> batch, p |-> p, step |-> batch_eps_step, applied |-> applied,
        x_adv |-> [i \in 1..N |-> IF i \in (B1 + 1)..B2 THEN rows[i - B1] ELSE xadv[i]]]

\* the twin attack: the same but for its eps_step
TwinCfg == [cfg EXCEPT !.eps_step = twin.eps_step]

\* one batch of _compute: perturbation, application with eps as the step,
\* projection onto the eps-ball around x
ComputeBatch ==
    /\ pc = "compute_batch"
    /\ \E g \in Gradients(B2 - B1) :
          /\ gradient_called' = TRUE
          /\ IF ~MaskFits(MaskBatch(ComputeMask), B2 - B1) \/ ~StepFits(cfg)
             THEN Raise("broadcast") /\ UNCHANGED <<compv, perturbation, last_apply, pert_all, nan_pos, twin, x_mem>>
             ELSE LET run == RunBatch(cfg, x_adv, g)
                  IN /\ perturbation' = run.p
                     /\ pert_all' = [i \in 1..N |-> IF i \in (B1 + 1)..B2 THEN run.p[i - B1] ELSE pert_all[i]]
                     /\ nan_pos' = nan_pos \cup NaNPositions(g, B1)
                     /\ last_apply' = [x |-> run.batch, p |-> run.p, e |-> run.step, out |-> run.applied]
                     /\ x_adv' = run.x_adv
                     /\ x_mem' = IF "x_adv" \in shares THEN run.x_adv ELSE x_mem
                     \* the twin's estimator is the same: the same gradient for the same batch
                     /\ \E g2 \in Gradients(B2 - B1) :
                           /\ SliceBatch(twin.x_adv, B1, B2) = run.batch => g2 = g
                           /\ twin' = [twin EXCEPT !.x_adv = IF StepFits(TwinCfg)
                                                             THEN RunBatch(TwinCfg, twin.x_adv, g2).x_adv
                                                             ELSE twin.x_adv]
                     /\ IF batch_id + 1 < NumBatches
                        THEN batch_id' = batch_id + 1 /\ UNCHANGED <<pc, err>>
                        ELSE pc' = "restart_end" /\ UNCHANGED <<batch_id, err>>
    /\ UNCHANGED <<inputs, locals, adv_x, active_indices, current_eps, partial_stop_condition,
                   memo, predict_called, search_batches, passes, runs, shares>>

(* --------------------- generate: the restart driver -------------------- *)
\* KeepsRun with every run kept: the last one wins
KeepsEveryRun(rate, best) == TRUE

\* if rate > rate_best
KeepsRun(rate, best) == rate > best

\* after a run of _compute: keep the batch with the highest success rate
\* when there are several restarts, the batch itself otherwise
ComputeEnd ==
    /\ pc = "restart_end"
    /\ IF est.classifier /\ cfg.num_random_init > 1
       THEN \E m2 \in Extensions(memo, SuccessSamples(x, x_adv) \cup SuccessSamples(x, twin.x_adv)) :
               LET rate == SuccessRate(m2, x, y_array, x_adv)
                   rate2 == SuccessRate(m2, x, y_array, twin.x_adv)
               IN /\ memo' = m2
                  /\ predict_called' = TRUE
                  /\ runs' = Append(runs, [adv |-> x_adv, rate |-> rate])
                  /\ IF KeepsRun(rate, rate_best)
                     THEN /\ rate_best' = rate /\ adv_x_best' = x_adv
                          /\ shares' = Rebind(shares, "adv_x_best", "x_adv")
                     ELSE UNCHANGED <<rate_best, adv_x_best, shares>>
                  /\ twin' = IF KeepsRun(rate2, twin.rate_best)
                             THEN [twin EXCEPT !.rate_best = rate2, !.adv_x_best = twin.x_adv]
                             ELSE twin
       ELSE /\ adv_x_best' = x_adv /\ twin' = [twin EXCEPT !.adv_x_best = twin.x_adv]
            /\ shares' = Rebind(shares, "adv_x_best", "x_adv")
            /\ UNCHANGED <<rate_best, memo, predict_called, runs>>
    /\ restart' = restart + 1
    /\ IF est.classifier /\ restart + 1 < Max(1, cfg.num_random_init)
       THEN \* the next run: the locals of this one are gone
            /\ pc' = "restart"
            /\ perturbation' = <<>> /\ pert_all' = [i \in 1..N |-> <<>>]
            /\ nan_pos' = {} /\ last_apply' = NoApply
       ELSE pc' = "done" /\ UNCHANGED <<perturbation, pert_all, nan_pos, last_apply>>
    /\ UNCHANGED <<inputs, err, mask, y_array, compv, adv_x, active_indices, current_eps,
                   partial_stop_condition, gradient_called, search_batches, passes, x_mem>>

Next ==
    \/ _get_mask
    \/ _check_compatibility_input_and_eps
    \/ Labels
    \/ MinimalBatch
    \/ MinimalStep
    \/ MinimalBatchEnd
    \/ MinimalRate
    \/ ComputeStart
    \/ ComputeBatch
    \/ ComputeEnd

(* ------------------------------ inputs --------------------------------- *)
Attack(norm, eps, eps_step, targeted, num_random_init, batch_size, minimal) ==
    [norm |-> norm, eps |-> eps, eps_step |-> eps_step, targeted |-> targeted,
     num_random_init |-> num_random_init, batch_size |-> batch_size, minimal |-> minimal]

Estimator(classifier, clip_values, grads) ==
    [classifier |-> classifier, clip_values |-> clip_values, grads |-> grads]

Call(c, e, xv, yv, m) == [cfg |-> c, est |-> e, x |-> xv, y |-> yv, mask |-> m]

\* an array of shape (rows, 1) holding vals
Column(vals) ==
    [rank |-> 2, rows |-> Len(vals), cols |-> 1, dtype |-> "float", data |-> [i \in 1..Len(vals) |-> <<vals[i]>>]]

\* the valid range [0.0, 1.0]
UnitClip == <<0, Scale>>

\* the state at the call of generate for one call of the set S
InitFrom(S) ==
    \E s \in S :
        /\ cfg = s.cfg /\ est = s.est /\ x = s.x /\ y = s.y /\ maskArg = s.mask
        /\ pc = "get_mask" /\ err = "none"
        /\ mask = NoMask /\ y_array = NoLabels
        /\ adv_x_best = s.x /\ rate_best = 0 /\ restart = 0
        /\ x_adv = s.x /\ batch_id = 0
        /\ adv_x = s.x /\ perturbation = <<>> /\ active_indices = {}
        /\ current_eps = Scalar(0) /\ partial_stop_condition = FALSE
        /\ memo = <<>> /\ predict_called = FALSE /\ gradient_called = FALSE
        /\ search_batches = {} /\ passes = 0 /\ pert_all = [i \in 1..Len(s.x) |-> <<>>]
        /\ nan_pos = {} /\ runs = <<>> /\ last_apply = NoApply
        /\ x_mem = s.x /\ shares = {}
        /\ twin = [eps_step |-> IF "other" \in DOMAIN s THEN s.other ELSE s.cfg.eps_step,
                   x_adv |-> s.x, adv_x_best |-> s.x, rate_best |-> 0]

\* labels: none, or given
LabelChoices(n) == {NoLabels, [i \in 1..n |-> 1], [i \in 1..n |-> IF i = 1 THEN 1 ELSE 2]}

\* a few calls that between them reach every step of generate
CoreCalls ==
    {Call(Attack("inf", Scalar(1), Scalar(1), FALSE, k, 1, mn), Estimator(TRUE, UnitClip, {-1, 1}),
          <<<<0>>, <<1>>>>, NoLabels, NoMask) : k \in {0, MaxInit}, mn \in BOOLEAN}

\* minimal-perturbation searches: scalar and per-sample eps and eps_step
\* (zero included), inputs inside and outside the valid range
SearchCalls ==
    LET n == MaxN
        scalars == {<<Scalar(e), Scalar(st)>> : e \in 0..MaxEps, st \in 0..MaxEps}
        columns == {<<Column([i \in 1..n |-> IF i = 1 THEN e ELSE MaxEps]), Column([i \in 1..n |-> st])>> :
                        e \in 1..MaxEps, st \in 1..MaxEps}
    IN {Call(Attack("inf", es[1], es[2], tg, 0, bs, TRUE), Estimator(TRUE, clip, {-1, 1}), xv, yv, NoMask) :
            es \in scalars \cup columns, tg \in BOOLEAN, bs \in {1, n}, clip \in {NoClip, UnitClip},
            xv \in [1..n -> [1..1 -> {-2, 1}]], yv \in LabelChoices(n)}

\* scalar and per-sample eps
EpsChoices(n) ==
    {Scalar(e) : e \in 0..MaxEps} \cup {Column([i \in 1..n |-> IF i = 1 THEN e ELSE MaxEps]) : e \in 1..MaxEps}

\* batches of n samples of one feature: all outside the valid range, or all
\* but the first inside it
Batches(n) == {[i \in 1..n |-> <<-2>>], [i \in 1..n |-> IF i = 1 THEN <<-2>> ELSE <<1>>]}

\* single runs of _compute under the infinity norm, with and without a
\* random start, for classifiers and other estimators
SingleCalls ==
    LET n == MaxN
    IN {Call(Attack("inf", eps, eps, FALSE, k, bs, FALSE), Estimator(cl, clip, {-1, 1}), xv, [i \in 1..n |-> 1], NoMask) :
            eps \in EpsChoices(n), k \in {0, 1}, bs \in {1, n}, cl \in BOOLEAN, clip \in {NoClip, UnitClip},
            xv \in Batches(n)}

\* random restarts of a classifier attack, targeted and untargeted: two
\* restarts on a batch of two samples, and up to MaxInit on a single sample
RestartCalls ==
    LET pairs == {Call(Attack("inf", eps, eps, tg, 2, 2, FALSE), Estimator(TRUE, clip, {-1, 1}),
                       <<<<-2>>, <<1>>>>, <<1, 1>>, NoMask) :
                      eps \in {Scalar(1), Scalar(MaxEps), Column(<<1, MaxEps>>)}, tg \in BOOLEAN,
                      clip \in {NoClip, UnitClip}}
        singles == {Call(Attack("inf", Scalar(e), Scalar(e), tg, k, 1, FALSE), Estimator(TRUE, clip, {-1, 1}),
                         <<<<xv>>>>, <<1>>, NoMask) :
                        e \in 1..MaxEps, tg \in BOOLEAN, k \in 2..MaxInit, clip \in {NoClip, UnitClip},
                        xv \in {-2, 1}}
    IN pairs \cup singles

\* minimal-perturbation searches with given labels
MinimalCalls ==
    LET n == MaxN
        steps == {<<Scalar(e), Scalar(st)>> : e \in 1..MaxEps, st \in 1..MaxEps}
                    \cup {<<Column([i \in 1..n |-> IF i = 1 THEN 1 ELSE MaxEps]), Column([i \in 1..n |-> 1])>>}
    IN {Call(Attack("inf", es[1], es[2], FALSE, 0, bs, TRUE), Estimator(TRUE, clip, {-1, 1}), xv, [i \in 1..n |-> 1], NoMask) :
            es \in steps, bs \in {1, n}, clip \in {NoClip, UnitClip}, xv \in Batches(n)}

DriverCalls == SingleCalls \cup RestartCalls \cup MinimalCalls

\* loss gradients with NaN and infinite elements under each norm, on samples
\* of two features inside and outside the valid range
NaNCalls ==
    LET modes == {<<FALSE, 0>>, <<FALSE, 1>>, <<TRUE, 0>>}
        one == {Call(Attack(norm, Scalar(e), Scalar(1), FALSE, md[2], 1, md[1]), Estimator(TRUE, clip, {-1, NaN, Inf}),
                     <<<<1, -2>>>>, <<1>>, NoMask) :
                    norm \in {"inf", "l1", "l2"}, e \in 1..MaxEps, md \in modes, clip \in {NoClip, UnitClip}}
        two == {Call(Attack(norm, Scalar(MaxEps), Scalar(1), FALSE, 0, 1, mn), Estimator(TRUE, clip, {-1, NaN, Inf}),
                     [i \in 1..MaxN |-> IF i = 1 THEN <<1, -2>> ELSE <<0, 3>>], [i \in 1..MaxN |-> 1], NoMask) :
                    norm \in {"inf", "l1", "l2"}, mn \in BOOLEAN, clip \in {NoClip, UnitClip}}
    IN one \cup two

\* a mask of shape (cols,) for rank 1 and (rows, cols) for rank 2
Mask(rank, dtype, data) ==
    [rank |-> rank, rows |-> Len(data), cols |-> Len(data[1]), dtype |-> dtype, data |-> data]

\* masks that broadcast to x, for classifiers and other estimators, with and
\* without a random start and clip_values
MaskCalls ==
    LET n == MaxN
        masks == {Mask(1, "float", <<<<0, Scale>>>>), Mask(1, "bool", <<<<Scale, 0>>>>),
                  Mask(2, "float", [i \in 1..n |-> IF i = 1 THEN <<0, Scale>> ELSE <<Scale, 0>>]),
                  Mask(2, "bool", [i \in 1..n |-> <<0, 0>>])}
        modes == {<<FALSE, 0>>, <<FALSE, 1>>, <<TRUE, 0>>}
    IN {Call(Attack("inf", Scalar(1), Scalar(1), FALSE, md[2], bs, md[1]), Estimator(cl, clip, {-1, 1}),
             [i \in 1..n |-> <<-2, 1>>], [i \in 1..n |-> 1], m) :
            m \in masks, md \in modes, bs \in {1, n}, cl \in BOOLEAN, clip \in {NoClip, UnitClip}}

\* masks and eps arrays of every rank, dtype and shape, with and without
\* labels, targeted or not, minimal or not, for classifiers and other estimators
ValidCalls ==
    LET n == MaxN
        ones(r, c) == [i \in 1..r |-> [j \in 1..c |-> Scale]]
        masks == {NoMask, Mask(1, "float", ones(1, 1)), Mask(1, "float", ones(1, 2)),
                  Mask(2, "float", ones(n, 1)), Mask(2, "bool", ones(n + 1, 1)),
                  Mask(3, "float", ones(n, 1)), Mask(2, "int", ones(n, 1)),
                  Mask(2, "float", [i \in 1..n |-> <<-1>>]), Mask(3, "int", ones(n, 1))}
        epss == {Scalar(1), Mask(1, "float", ones(1, 1)), Mask(2, "float", ones(n, 1)),
                 Mask(2, "float", ones(n + 1, 1)), Mask(1, "float", ones(1, 2)), Mask(3, "float", ones(n, 1))}
    IN {Call(Attack("inf", eps, eps, tg, k, n, mn), Estimator(cl, NoClip, {1}),
             [i \in 1..n |-> <<1>>], yv, m) :
            m \in masks, eps \in epss, tg \in BOOLEAN, k \in {0, 1}, mn \in BOOLEAN, cl \in BOOLEAN,
            yv \in {NoLabels, [i \in 1..n |-> 1]}}

\* pairs of attacks that differ in eps_step only (the second one's is
\* "other"), outside minimal mode: with and without a random start, for
\* classifiers and other estimators, and with two restarts
TwinCalls ==
    LET n == MaxN
        steps == {<<Scalar(e), Scalar(st), Scalar(ot)>> : e \in 1..MaxEps, st \in 0..MaxEps, ot \in 1..MaxEps}
                    \cup {<<Column([i \in 1..n |-> IF i = 1 THEN 1 ELSE MaxEps]), Column([i \in 1..n |-> 1]),
                             Column([i \in 1..n |-> MaxEps])>>}
        single == {Call(Attack("inf", es[1], es[2], FALSE, k, n, FALSE), Estimator(cl, clip, {-1, 1}),
                        [i \in 1..n |-> IF i = 1 THEN <<-2>> ELSE <<1>>], [i \in 1..n |-> 1], NoMask)
                        @@ [other |-> es[3]] :
                      es \in {t \in steps : t[2] # t[3]}, k \in {0, 1}, cl \in BOOLEAN, clip \in {NoClip, UnitClip}}
        restarts == {Call(Attack("inf", Scalar(1), Scalar(1), tg, 2, 2, FALSE), Estimator(TRUE, NoClip, {-1, 1}),
                          <<<<-2>>, <<1>>>>, <<1, 1>>, NoMask) @@ [other |-> Scalar(MaxEps)] : tg \in BOOLEAN}
    IN single \cup restarts

\* calls generate rejects: a targeted attack without labels, a mask and an
\* eps of too high a rank, minimal mode on an estimator that is not a classifier
RejectedCalls ==
    LET n == MaxN
        xv == [i \in 1..n |-> <<1>>]
        high == [rank |-> 3, rows |-> n, cols |-> 1, dtype |-> "float", data |-> [i \in 1..n |-> <<Scale>>]]
    IN {Call(Attack("inf", Scalar(1), Scalar(1), TRUE, 0, n, mn), Estimator(TRUE, NoClip, {1}), xv, NoLabels, NoMask) :
            mn \in BOOLEAN}
       \cup {Call(Attack("inf", Scalar(1), Scalar(1), FALSE, 0, n, mn), Estimator(TRUE, NoClip, {1}), xv, NoLabels, high) :
            mn \in BOOLEAN}
       \cup {Call(Attack("inf", high, high, FALSE, 0, n, mn), Estimator(TRUE, NoClip, {1}), xv, NoLabels, NoMask) :
            mn \in BOOLEAN}
       \cup {Call(Attack("inf", Scalar(1), Scalar(1), FALSE, 0, n, TRUE), Estimator(FALSE, NoClip, {1}), xv, NoLabels, NoMask)}

InitSearch == InitFrom(CoreCalls \cup SearchCalls)
InitFrame == InitFrom(CoreCalls \cup DriverCalls \cup RejectedCalls)
SpecFrame == InitFrame /\ [][Next]_vars
InitTwin == InitFrom(CoreCalls \cup TwinCalls)
SpecTwin == InitTwin /\ [][Next]_vars
InitNaN == InitFrom(CoreCalls \cup NaNCalls)
InitMask == InitFrom(CoreCalls \cup MaskCalls)
InitValid == InitFrom(CoreCalls \cup ValidCalls)
SpecNaN == InitNaN /\ [][Next]_vars
SpecMask == InitMask /\ [][Next]_vars
SpecValid == InitValid /\ [][Next]_vars
InitDriver == InitFrom(CoreCalls \cup DriverCalls)
SpecDriver == InitDriver /\ [][Next]_vars
SpecSearch == InitSearch /\ [][Next]_vars

\* searches over every eps and eps_step from one input batch
TerminationCalls ==
    LET n == MaxN
        scalars == {<<Scalar(e), Scalar(st)>> : e \in 0..MaxEps, st \in 0..MaxEps}
        columns == {<<Column([i \in 1..n |-> IF i = 1 THEN e ELSE MaxEps]), Column([i \in 1..n |-> st])>> :
                        e \in 1..MaxEps, st \in 1..MaxEps}
    IN {Call(Attack("inf", es[1], es[2], tg, 0, bs, TRUE), Estimator(TRUE, UnitClip, {-1, 1}),
             [i \in 1..n |-> <<1>>], [i \in 1..n |-> 1], NoMask) :
            es \in scalars \cup columns, tg \in BOOLEAN, bs \in {1, n}}

InitTermination == InitFrom(CoreCalls \cup TerminationCalls)
\* the program runs on: once in _minimal_perturbation, the interpreter always
\* takes the step of the search that is next
Fairness ==
    /\ WF_vars(MinimalBatch) /\ WF_vars(MinimalStep) /\ WF_vars(MinimalBatchEnd) /\ WF_vars(MinimalRate)
FairTermination == InitTermination /\ [][Next]_vars /\ Fairness

(* ------------------------------ claims --------------------------------- *)
BatchIds == 0..(NumBatches - 1)
RowsOfBatch(b) == (b * cfg.batch_size + 1)..Min((b + 1) * cfg.batch_size, N)
BatchOfSample(i) == (i - 1) \div cfg.batch_size
\* the eps and the eps_step of sample i
EpsAt(i) == BGet(cfg.eps, i, 1)
StepAt(i) == BGet(cfg.eps_step, i, 1)
StepExceeds(b) == \E i \in RowsOfBatch(b) : StepAt(i) > EpsAt(i)
StepWithin == \A i \in 1..N : StepAt(i) <= EpsAt(i)
StepPositive == \A i \in 1..N : StepAt(i) > 0

\* C4: in minimal mode a batch whose eps_step exceeds its eps never enters
\* the search loop body (so the estimator is not asked inside the search) and
\* every sample of it is returned equal to the input.
C4_SearchSkipped ==
    cfg.minimal =>
        \A b \in BatchIds : StepExceeds(b) =>
            /\ b \notin search_batches
            /\ \A i \in RowsOfBatch(b) : adv_x[i] = x[i] /\ (pc = "done" => adv_x_best[i] = x[i])

\* generate has returned from a search that skipped batch 0 and searched batch 1
C4_Witness == pc = "done" /\ cfg.minimal /\ StepExceeds(0) /\ search_batches = {1}

\* C5 as stated: whenever eps_step <= eps, the minimal search ends and
\* generate returns.
C5_Original == (pc = "minimal_batch" /\ StepWithin) ~> (pc = "done")

\* C5 amended: whenever 0 < eps_step <= eps, the minimal search ends and
\* generate returns, whatever the estimator predicts.
C5_Terminates == (pc = "minimal_batch" /\ StepWithin /\ StepPositive) ~> (pc = "done")

\* generate has returned from a search in which no prediction of the last
\* batch ever flipped: the loop ended on the eps budget alone
C5_Witness ==
    /\ pc = "done" /\ cfg.minimal /\ StepWithin /\ StepPositive
    /\ search_batches = BatchIds
    /\ active_indices = 1..(B2 - B1)
    /\ ~partial_stop_condition

\* the step counts of the search
StepCounts == 1..MaxEps
\* the step counts within the budget of sample i alone
BudgetOfSample(i) == {k \in StepCounts : k * StepAt(i) <= EpsAt(i)}
\* the step counts within the budget of every sample of i's batch
BudgetOfBatch(i) == {k \in StepCounts : \A q \in RowsOfBatch(BatchOfSample(i)) : k * StepAt(q) <= EpsAt(q)}
\* sample i after k steps
Candidate(i, k) == [j \in 1..D |-> ApplyAt(x[i][j], pert_all[i][j], k * StepAt(i), est.clip_values)]
\* the estimator predicts the candidate as adversarial
Hit(i, k) ==
    /\ Candidate(i, k) \in DOMAIN memo
    /\ IF cfg.targeted THEN memo[Candidate(i, k)] = y_array[i] ELSE memo[Candidate(i, k)] # y_array[i]
SetMin(S) == CHOOSE k \in S : \A q \in S : k <= q
SetMax(S) == CHOOSE k \in S : \A q \in S : k >= q
\* the candidate at the first hit within the budget K, at the end of the
\* budget when there is none, the input when the budget is empty
SearchResult(i, K) ==
    LET hits == {k \in K : Hit(i, k)}
    IN IF hits # {} THEN Candidate(i, SetMin(hits))
       ELSE IF K # {} THEN Candidate(i, SetMax(K))
       ELSE x[i]

WithinEps(i, j) == Abs(Sub(adv_x_best[i][j], x[i][j])) <= EpsAt(i)
\* the value xv lies in the estimator's clip_values
InClipRange(xv) == est.clip_values = NoClip \/ (est.clip_values[1] <= xv /\ xv <= est.clip_values[2])

\* C1 as stated: with norm = infinity, in every configuration of generate,
\* every element of generate(x) - x has absolute value at most the eps of its
\* sample.
C1_Original ==
    (pc = "done" /\ cfg.norm = "inf") => \A i \in 1..N, j \in 1..D : WithinEps(i, j)

\* C1: with norm = infinity every element of generate(x) - x has absolute
\* value at most the eps of its sample in every configuration that is not
\* minimal mode, and in minimal mode at every element of x that lies within
\* the estimator's clip_values (every element when clip_values is None).
C1_LinfBound ==
    (pc = "done" /\ cfg.norm = "inf") =>
        \A i \in 1..N, j \in 1..D : (~cfg.minimal \/ InClipRange(x[i][j])) => WithinEps(i, j)

\* generate has returned from a run with a random start whose input lies
\* outside the clip range, and the output sits at distance eps from it
C1_Witness ==
    /\ pc = "done" /\ cfg.norm = "inf" /\ ~cfg.minimal /\ cfg.num_random_init > 0
    /\ est.clip_values # NoClip /\ ~InClipRange(x[1][1])
    /\ EpsAt(1) > 0 /\ Abs(Sub(adv_x_best[1][1], x[1][1])) = EpsAt(1)

\* the success rates the returned batch may have, over every estimator that
\* agrees with the predictions seen so far
ReturnedRates ==
    {SuccessRate(m2, x, y_array, adv_x_best) : m2 \in Extensions(memo, SuccessSamples(x, adv_x_best))}

\* C3: after random restarts (num_random_init > 1, classifier, not minimal)
\* the success rate of the batch generate returns is at least the success
\* rate measured for each restart.
C3_BestRestart ==
    (pc = "done" /\ est.classifier /\ ~cfg.minimal /\ cfg.num_random_init > 1) =>
        /\ Len(runs) = cfg.num_random_init
        /\ \A k \in 1..Len(runs) : \A r \in ReturnedRates : runs[k].rate <= r

\* generate returns the first of two restarts, which succeeded on more
\* samples than the second
C3_Witness ==
    /\ pc = "done" /\ est.classifier /\ ~cfg.minimal /\ Len(runs) = 2
    /\ runs[1].rate = 100 /\ runs[2].rate = 50
    /\ adv_x_best = runs[1].adv /\ runs[2].adv # runs[1].adv
\* np.clip(xv, clip_min, clip_max) under the estimator's clip_values
ClipTo(xv) == IF est.clip_values = NoClip THEN xv ELSE Clip(xv, est.clip_values[1], est.clip_values[2])
\* the output at (i, j) lies between x and the clipped x: it differs from the
\* input by clipping and projection only
OnlyClipped(i, j) ==
    /\ Min(x[i][j], ClipTo(x[i][j])) <= adv_x_best[i][j]
    /\ adv_x_best[i][j] <= Max(x[i][j], ClipTo(x[i][j]))
NoNaNIn(b) == \A i \in Rows(b), j \in Cols(b) : ~IsNaN(b[i][j])

\* C2 as stated: at every position where the mask passed to generate is
\* zero the output equals the input x, for classifiers and other estimators,
\* with and without a random start and clip_values.
C2_Original ==
    (pc = "done" /\ maskArg # NoMask) =>
        \A i \in 1..N, j \in 1..D : BGet(maskArg, i, j) = 0 => adv_x_best[i][j] = x[i][j]

\* mask, eps and label conditions generate rejects, read off its arguments
BadMask ==
    /\ maskArg # NoMask
    /\ \/ maskArg.rank > 2
       \/ maskArg.dtype \notin {"float", "bool"}
       \/ maskArg.dtype = "float" /\ \E i \in 1..maskArg.rows, j \in 1..maskArg.cols : maskArg.data[i][j] < 0
BadEps == IsArray(cfg.eps) /\ cfg.eps.rank > 2
BadLabels == (y = NoLabels /\ cfg.targeted) \/ (~est.classifier /\ cfg.minimal)
ValidationErrors ==
    {"mask_rank", "mask_dtype", "mask_negative", "eps_rank", "targeted_no_y", "minimal_not_classifier"}
\* the estimator has not been called and no adversarial sample exists
Untouched ==
    /\ ~predict_called /\ ~gradient_called
    /\ adv_x_best = x /\ x_adv = x /\ adv_x = x /\ runs = <<>> /\ last_apply = NoApply

\* C6: a call generate rejects (targeted without y, a mask of a rejected
\* dtype or rank or with negative values, an eps of too high rank, minimal
\* mode on a non-classifier) never reaches estimator.predict or
\* estimator.loss_gradient and never computes an adversarial sample: the
\* validation error is raised first.
C6_Eager ==
    /\ (BadMask \/ BadEps \/ BadLabels) => (Untouched /\ pc # "done" /\ (pc = "error" => err \in ValidationErrors))
    /\ (pc = "error" /\ err \in ValidationErrors) => Untouched

\* a targeted attack without labels has been rejected after its mask and eps
\* passed their checks
C6_Witness ==
    pc = "error" /\ err = "targeted_no_y" /\ maskArg # NoMask /\ IsArray(cfg.eps) /\ Untouched

\* the shape of a broadcasts to the shape of x
ShapeFits(a) == a.rank <= 2 /\ a.rows \in {1, N} /\ a.cols \in {1, D}
\* _get_mask and _check_compatibility_input_and_eps have returned
ChecksPassed ==
    /\ pc \notin {"get_mask", "check_eps"}
    /\ ~(pc = "error" /\ err \in {"mask_rank", "mask_dtype", "mask_negative", "eps_rank"})

\* C7 as stated: generate raises a validation error for every mask and eps
\* whose shape does not broadcast to the shape of x, and accepts every mask
\* and eps whose shape does.
C7_Original ==
    /\ ChecksPassed => ((maskArg = NoMask \/ ShapeFits(maskArg)) /\ ShapeFits(cfg.eps))
    /\ (pc = "error" /\ err = "mask_rank") => ~ShapeFits(maskArg)
    /\ (pc = "error" /\ err = "eps_rank") => ~ShapeFits(cfg.eps)

\* C8 as stated: a NaN in the loss gradient is never fatal, the perturbation
\* is zero wherever the gradient is NaN, and in every configuration the output
\* there differs from the input only by clipping/projection, never by NaN.
C8_Original ==
    /\ nan_pos # {} => pc # "error"
    /\ \A q \in nan_pos : pert_all[q[1]][q[2]] = 0
    /\ pc = "done" => (NoNaNIn(adv_x_best) /\ \A q \in nan_pos : OnlyClipped(q[1], q[2]))

\* C8: a NaN in the loss gradient is never fatal: generate does not raise,
\* the perturbation is zero wherever the gradient is NaN, no element of the
\* output is NaN for any norm, and without a random start (num_random_init =
\* 0) the output there differs from the input only by clipping/projection.
C8_NaNHarmless ==
    /\ nan_pos # {} => pc # "error"
    /\ \A q \in nan_pos : pert_all[q[1]][q[2]] = 0
    /\ NoNaNIn(adv_x) /\ NoNaNIn(x_adv)
    /\ pc = "done" =>
          /\ NoNaNIn(adv_x_best)
          /\ cfg.num_random_init = 0 => \A q \in nan_pos : OnlyClipped(q[1], q[2])

\* generate has returned under the norm 2 from a gradient that is NaN at one
\* feature of a sample and finite at the other: the first is returned as it
\* was, the second has moved
C8_Witness ==
    /\ pc = "done" /\ cfg.norm = "l2" /\ cfg.num_random_init = 0
    /\ <<1, 1>> \in nan_pos /\ <<1, 2>> \notin nan_pos
    /\ adv_x_best[1][1] = x[1][1] /\ adv_x_best[1][2] # x[1][2]

\* eps_step * perturbation at (i, j) of the latest call of
\* _apply_perturbation, a NaN step replaced by 0
CleanStep(i, j) ==
    IF IsNaN(last_apply.p[i][j]) THEN 0 ELSE RoundDiv(BGet(last_apply.e, i, j) * last_apply.p[i][j], Scale)

\* C10: with clip_values = (clip_min, clip_max) every element returned by
\* _apply_perturbation lies in [clip_min, clip_max]; with clip_values None the
\* result is exactly x + eps_step * perturbation with NaN steps replaced by 0.
C10_ApplyRange ==
    \A i \in Rows(last_apply.out), j \in Cols(last_apply.out) :
        IF est.clip_values = NoClip
        THEN last_apply.out[i][j] = last_apply.x[i][j] + CleanStep(i, j)
        ELSE est.clip_values[1] <= last_apply.out[i][j] /\ last_apply.out[i][j] <= est.clip_values[2]

\* one call of _apply_perturbation met a NaN perturbation at one feature and
\* clipped the other back into the valid range
C10_Witness ==
    /\ last_apply # NoApply /\ est.clip_values # NoClip
    /\ IsNaN(last_apply.p[1][1])
    /\ ~IsNaN(last_apply.p[1][2])
    /\ last_apply.out[1][2] # last_apply.x[1][2] + CleanStep(1, 2)
\* C11: outside minimal mode the output of generate does not depend on the
\* configured eps_step: an attack that differs in eps_step only, run on the
\* same x, y, mask and estimator with the same random draws, holds the same
\* array at every step of _compute and returns the same batch.
C11_StepIgnored ==
    ~cfg.minimal =>
        /\ twin.x_adv = x_adv
        /\ twin.rate_best = rate_best
        /\ pc = "done" => twin.adv_x_best = adv_x_best

\* two attacks with different eps_step have returned the same batch, which
\* is not x, after a random start
C11_Witness ==
    /\ pc = "done" /\ ~cfg.minimal /\ cfg.num_random_init > 0
    /\ twin.eps_step # cfg.eps_step
    /\ adv_x_best # x /\ twin.adv_x_best = adv_x_best
\* C12: generate never modifies the caller's batch x: at every point of a
\* call (minimal mode, single-step mode, random restarts, a validation
\* error) the caller's array holds what it held at the call, and no array
\* generate writes to is the caller's, also when generate returns x itself.
C12_InputKept ==
    /\ x_mem = x
    /\ shares \subseteq {"adv_x_best"}

\* generate has returned x itself after random restarts none of which
\* succeeded on any sample, although a restart had moved away from x
C12_Witness ==
    /\ pc = "done" /\ cfg.num_random_init > 1 /\ "adv_x_best" \in shares
    /\ runs # <<>> /\ \A k \in 1..Len(runs) : runs[k].rate = 0 /\ runs[k].adv # x
    /\ adv_x_best = x /\ x_mem = x
====
